---- MODULE Spec2Model ----
(***************************************************************************)
(* Model of the Fav bookmark store (FavoriteStore), the entity model       *)
(* (Group / Favorite / Folder) and the FavoriteManager commands that       *)
(* mutate the store.                                                       *)
(*                                                                         *)
(* Objects live in a heap: heap[id] is the object with identity id.        *)
(* Identity 1 is the RootGroup constant; Nil (0) stands for undefined.     *)
(* Labels are modelled by their rank in collation order (1..NumLabels),    *)
(* 0 being the empty string.                                               *)
(*                                                                         *)
(* A handler is one action per stretch of code between two awaits.  The    *)
(* store calls made by the manager are not awaited, so a handler issues    *)
(* its writes and goes on; the storage layer completes writes and reads    *)
(* later, in any order.  Quick picks and input boxes are exclusive (a new   *)
(* one dismisses the one that is open), warning messages are not.          *)
(*                                                                         *)
(* Specifications: Spec and SpecQuiet run the manager commands against the *)
(* storage layer; SpecCommand runs them one at a time with what their      *)
(* input boxes return, rename and filter change included; SpecStore,       *)
(* SpecTrip, SpecList, SpecMoveList and SpecEdit drive the store one call  *)
(* at a time (sorting, write and read back, listings, several arguments);  *)
(* SpecLoad runs refresh() on edited files; SpecWrite lets writes fail;    *)
(* SpecLegacy loads documents whose records lack fields; SpecSave,         *)
(* SpecView and SpecOpen follow what is written, rendered and activated;   *)
(* SpecRestore runs the restoration point on restore.json.                 *)
(***************************************************************************)
EXTENDS Integers, Sequences, FiniteSets, TLC

\* ------------------------------------------------------------------ bounds
MaxObj == 3          \* objects alive at once, RootGroup included
NumLabels == 1       \* distinct labels the user types
MaxWrites == 2       \* writeFile calls in flight
MaxRefresh == 2      \* refresh() calls in flight
MaxConfirms == 1     \* removal warnings awaiting an answer
MaxEntities == 3     \* entities in the tree when the store is driven call by call
NumStoreLabels == 2  \* distinct labels when the store is driven call by call
MaxPaths == 2        \* paths in a restoration point
MaxRestoreOps == 2   \* operations on restore.json in flight
MaxArgs == 2         \* entities passed to one add(...) or delete(...) call

\* --------------------------------------------------------------- constants
Nil == 0
RootGroup == 1
RootLabel == 0 - 1
DefaultFileFiter == "*"
Labels == 1..NumLabels
SelectedPath == "/p"    \* the path of the element the command is issued on
Kinds == {"Favorite"}

VARIABLES
    heap,        \* all objects constructed so far, by identity
    favorites,   \* FavoriteStore._favorites: sequence of identities
    file,        \* content of favorites.json
    writes,      \* documents handed to writeFile, not yet on disk
    refreshes,   \* refresh() calls awaiting readFile
    prompt,      \* the command suspended at a quick pick / input box
    confirms,    \* removeFavorite calls suspended at the warning message
    last,        \* what the last completed step did (history)
    fileKind,    \* what favorites.json holds: a list (file), or something else
    outcome,     \* how the last store call ended (history)
    restoreFile, \* content of restore.json
    restoreOps,  \* writeFile / delete calls on restore.json, not yet done
    loading,     \* the loadResorationPoint() call in progress
    point        \* what the callers know of the restoration point (history)

vars == <<heap, favorites, file, writes, refreshes, prompt, confirms, last,
          fileKind, outcome, restoreFile, restoreOps, loading, point>>

restoreVars == <<restoreFile, restoreOps, loading, point>>

\* ------------------------------------------------------------ entity model
\* description is the breadcrumb (the labels of the ancestors passed to
\* groupsDeep / favoritesDeep); <<>> stands for undefined.  resourcePath and
\* filter "" stand for a field the object does not carry.
NewGroup(label) ==
    [cls |-> "Group", label |-> label, parent |-> Nil, children |-> <<>>,
     resourcePath |-> "", filter |-> "", description |-> <<>>]

NewFavorite(label, path) ==
    [cls |-> "Favorite", label |-> label, parent |-> Nil, children |-> <<>>,
     resourcePath |-> path, filter |-> "", description |-> <<>>]

NewFolder(label, path, filter) ==
    [cls |-> "Folder", label |-> label, parent |-> Nil, children |-> <<>>,
     resourcePath |-> path, filter |-> filter, description |-> <<>>]

RootGroupObj == NewGroup(RootLabel)

isGroup(h, id) == h[id].cls = "Group"

Range(s) == {s[i] : i \in 1..Len(s)}

IndexOf(s, x) ==
    IF x \in Range(s) THEN CHOOSE i \in 1..Len(s) : s[i] = x /\ \A j \in 1..(i-1) : s[j] # x
    ELSE 0 - 1

\* the sequences of at most n elements of S
RECURSIVE SeqsUpTo(_, _)
SeqsUpTo(S, n) ==
    IF n = 0 THEN {<<>>}
    ELSE LET T == SeqsUpTo(S, n - 1)
         IN T \cup {Append(t, x) : t \in T, x \in S}

RemoveAt(s, i) == [j \in 1..(Len(s)-1) |-> IF j < i THEN s[j] ELSE s[j+1]]

\* Array.prototype.splice(index, 1) with a JavaScript index (0-based, and a
\* negative index counts from the end); idx here is 1-based or -1.
Splice1(s, idx) ==
    IF idx >= 1 THEN RemoveAt(s, idx)
    ELSE IF Len(s) = 0 THEN s
    ELSE RemoveAt(s, Len(s))

addChildNoParent(h, g, item) ==
    [h EXCEPT ![g].children = Append(@, item)]

addChild(h, g, item) ==
    LET h1 == [h EXCEPT ![g].children = Append(@, item)]
    IN [h1 EXCEPT ![item].parent = g]

removeChildKeepParent(h, g, item) ==
    LET index == IndexOf(h[g].children, item)
    IN IF index < 0 THEN h
       ELSE [h EXCEPT ![g].children = RemoveAt(@, index)]

removeChild(h, g, item) ==
    LET index == IndexOf(h[g].children, item)
    IN IF index < 0 THEN h
       ELSE LET h1 == [h EXCEPT ![h[g].children[index]].parent = Nil]
            IN [h1 EXCEPT ![g].children = RemoveAt(@, index)]

\* ------------------------------------------------------------ reachability
RECURSIVE ReachFrom(_, _, _)
ReachFrom(h, S, n) ==
    IF n = 0 THEN S
    ELSE LET T == S \cup UNION {Range(h[x].children) : x \in S}
         IN IF T = S THEN S ELSE ReachFrom(h, T, n - 1)

Reach(h, favs) == ReachFrom(h, Range(favs), Len(h))

\* strict descendants of id along children lists
Descendants(h, id) == ReachFrom(h, Range(h[id].children), Len(h))

Circular(h, favs) == \E x \in Reach(h, favs) : x \in Descendants(h, x)

\* ------------------------------------------------------------ serialization
RECURSIVE toJSON(_, _, _)
toJSONWithDescription(h, id, fuel) ==
    IF h[id].cls = "Group" THEN
        [label |-> h[id].label,
         children |-> IF fuel = 0 THEN <<>>
                      ELSE [i \in 1..Len(h[id].children) |->
                               toJSON(h, h[id].children[i], fuel - 1)]]
    ELSE IF h[id].description = <<>> THEN
        [label |-> h[id].label, resourcePath |-> h[id].resourcePath]
    ELSE
        [label |-> h[id].label, resourcePath |-> h[id].resourcePath,
         description |-> h[id].description]

toJSON(h, id, fuel) ==
    IF h[id].cls = "Group" THEN
        [label |-> h[id].label,
         children |-> IF fuel = 0 THEN <<>>
                      ELSE [i \in 1..Len(h[id].children) |->
                               toJSON(h, h[id].children[i], fuel - 1)]]
    ELSE IF h[id].cls = "Folder" THEN
        [label |-> h[id].label, filter |-> h[id].filter,
         resourcePath |-> h[id].resourcePath]
    ELSE
        [label |-> h[id].label, resourcePath |-> h[id].resourcePath]

Stringify(h, favs) == [i \in 1..Len(favs) |-> toJSON(h, favs[i], Len(h))]

\* persist(): JSON.stringify throws on a circular structure before writeFile
\* is called; otherwise the document is handed to the storage layer.
persist(h, favs, w) ==
    IF Circular(h, favs) THEN w ELSE Append(w, Stringify(h, favs))

\* ---------------------------------------------------------------- restore
\* A stored record is a TLA+ record holding the fields the JSON object has;
\* NullRecord is the JSON value null used as a record.
NullRecord == [null |-> TRUE]

Field(obj, name, default) == IF name \in DOMAIN obj THEN obj[name] ELSE default

\* the class restore() picks: Group.isGroup(obj), then obj.filter !== undefined
classifyFilterFirst(obj) ==
    IF "filter" \in DOMAIN obj THEN "Folder"
    ELSE IF "children" \in DOMAIN obj THEN "Group"
    ELSE "Favorite"

classify(obj) ==
    IF "children" \in DOMAIN obj THEN "Group"
    ELSE IF "filter" \in DOMAIN obj THEN "Folder"
    ELSE "Favorite"

AssignedNoParent(obj, parent) ==
    LET kind == classify(obj)
        blank == IF kind = "Group" THEN NewGroup(0)
                 ELSE IF kind = "Folder" THEN NewFolder(0, "", DefaultFileFiter)
                 ELSE NewFavorite(0, "")
    IN [blank EXCEPT !.label = Field(obj, "label", @),
                     !.resourcePath = Field(obj, "resourcePath", @),
                     !.filter = Field(obj, "filter", @)]

\* Object.assign(new Group() | new Folder() | new Favorite(), obj): the fields
\* of the class with their defaults, overwritten by the fields obj has
Assigned(obj, parent) ==
    LET kind == classify(obj)
        blank == IF kind = "Group" THEN NewGroup(0)
                 ELSE IF kind = "Folder" THEN NewFolder(0, "", DefaultFileFiter)
                 ELSE NewFavorite(0, "")
    IN [blank EXCEPT !.label = Field(obj, "label", @),
                     !.resourcePath = Field(obj, "resourcePath", @),
                     !.filter = Field(obj, "filter", @),
                     !.parent = parent]

\* restore(obj, parent) allocates the object and, for a Group, its subtree;
\* threw tells that a TypeError was raised on the way (obj is null)
RECURSIVE restore(_, _, _)
RECURSIVE restoreAll(_, _, _)
restore(h, obj, parent) ==
    LET id == Len(h) + 1 IN
    IF obj = NullRecord THEN [h |-> h, id |-> Nil, threw |-> TRUE]
    ELSE IF classify(obj) = "Group" THEN
        LET r == restoreAll(Append(h, Assigned(obj, parent)), obj.children, id)
        IN [h |-> [r.h EXCEPT ![id].children = r.ids], id |-> id, threw |-> r.threw]
    ELSE [h |-> Append(h, Assigned(obj, parent)), id |-> id, threw |-> FALSE]

restoreAll(h, objs, parent) ==
    IF objs = <<>> THEN [h |-> h, ids |-> <<>>, threw |-> FALSE]
    ELSE LET r1 == restore(h, Head(objs), parent)
         IN IF r1.threw THEN [h |-> r1.h, ids |-> <<>>, threw |-> TRUE]
            ELSE LET r2 == restoreAll(r1.h, Tail(objs), parent)
                 IN [h |-> r2.h, ids |-> <<r1.id>> \o r2.ids, threw |-> r2.threw]

\* this._onStoreLoaded.fire(undefined), _favorites being favs: the listeners
\* run at once; fired counts the notifications, seen is the root collection
\* the listener finds
fire(favs) == [fired |-> 1, seen |-> favs]

\* FavoriteStore.refresh() once readFile has answered, the file being of
\* kind fileKind and, when it is a list, holding doc.  threw names the call
\* that raised; the function being async, the promise it returned rejects.
refreshClearsFirst(h, favs, kind, doc) ==
    IF kind = "missing" THEN
        [h |-> h, favs |-> <<>>, threw |-> "readFile", rejected |-> TRUE,
         fired |-> 0, seen |-> <<>>]
    ELSE IF kind = "malformed" THEN
        [h |-> h, favs |-> <<>>, threw |-> "JSON.parse", rejected |-> TRUE,
         fired |-> 0, seen |-> <<>>]
    ELSE IF kind = "null" THEN
        [h |-> h, favs |-> <<>>, threw |-> "none", rejected |-> FALSE,
         fired |-> fire(<<>>).fired, seen |-> fire(<<>>).seen]
    ELSE IF kind \in {"scalar", "object"} THEN
        [h |-> h, favs |-> <<>>, threw |-> "map", rejected |-> TRUE,
         fired |-> 0, seen |-> <<>>]
    ELSE LET r == restoreAll(h, doc, Nil)
         IN IF r.threw
            THEN [h |-> h, favs |-> <<>>, threw |-> "restore", rejected |-> TRUE,
                  fired |-> 0, seen |-> <<>>]
            ELSE [h |-> r.h, favs |-> r.ids, threw |-> "none", rejected |-> FALSE,
                  fired |-> fire(r.ids).fired, seen |-> fire(r.ids).seen]

refreshFiresFirst(h, favs, kind, doc) ==
    IF kind = "missing" THEN
        [h |-> h, favs |-> favs, threw |-> "readFile", rejected |-> TRUE,
         fired |-> 0, seen |-> <<>>]
    ELSE IF kind = "malformed" THEN
        [h |-> h, favs |-> favs, threw |-> "JSON.parse", rejected |-> TRUE,
         fired |-> 0, seen |-> <<>>]
    ELSE IF kind = "null" THEN
        [h |-> h, favs |-> <<>>, threw |-> "none", rejected |-> FALSE,
         fired |-> fire(favs).fired, seen |-> fire(favs).seen]
    ELSE IF kind \in {"scalar", "object"} THEN
        [h |-> h, favs |-> favs, threw |-> "map", rejected |-> TRUE,
         fired |-> 0, seen |-> <<>>]
    ELSE LET r == restoreAll(h, doc, Nil)
         IN IF r.threw
            THEN [h |-> h, favs |-> favs, threw |-> "restore", rejected |-> TRUE,
                  fired |-> 0, seen |-> <<>>]
            ELSE [h |-> r.h, favs |-> r.ids, threw |-> "none", rejected |-> FALSE,
                  fired |-> fire(favs).fired, seen |-> fire(favs).seen]

refresh(h, favs, kind, doc) ==
    IF kind = "missing" THEN
        [h |-> h, favs |-> favs, threw |-> "readFile", rejected |-> TRUE,
         fired |-> 0, seen |-> <<>>]
    ELSE IF kind = "malformed" THEN
        [h |-> h, favs |-> favs, threw |-> "JSON.parse", rejected |-> TRUE,
         fired |-> 0, seen |-> <<>>]
    ELSE IF kind = "null" THEN
        [h |-> h, favs |-> <<>>, threw |-> "none", rejected |-> FALSE,
         fired |-> fire(<<>>).fired, seen |-> fire(<<>>).seen]
    ELSE IF kind \in {"scalar", "object"} THEN
        [h |-> h, favs |-> favs, threw |-> "map", rejected |-> TRUE,
         fired |-> 0, seen |-> <<>>]
    ELSE LET r == restoreAll(h, doc, Nil)
         IN IF r.threw
            THEN [h |-> h, favs |-> favs, threw |-> "restore", rejected |-> TRUE,
                  fired |-> 0, seen |-> <<>>]
            ELSE [h |-> r.h, favs |-> r.ids, threw |-> "none", rejected |-> FALSE,
                  fired |-> fire(r.ids).fired, seen |-> fire(r.ids).seen]

\* ------------------------------------------------------------ store reads
\* FavoriteStore.groups(): every Group reachable from the root collection
groups(h, favs) == {x \in Reach(h, favs) : isGroup(h, x)}

\* ------------------------------------------------------------- ordering
\* String.prototype.localeCompare on labels, a label being its collation rank
localeCompare(a, b) == IF a < b THEN 0 - 1 ELSE IF a > b THEN 1 ELSE 0

bookmarkableComparatorLabelOnly(h, a, b) == localeCompare(h[a].label, h[b].label)

bookmarkableComparator(h, a, b) ==
    IF isGroup(h, a) # isGroup(h, b)
    THEN (IF isGroup(h, a) THEN 0 - 1 ELSE 1)
    ELSE localeCompare(h[a].label, h[b].label)

\* Array.prototype.sort(bookmarkableComparator): a stable sort
RECURSIVE SortInsert(_, _, _)
SortInsert(h, s, x) ==
    IF s = <<>> THEN <<x>>
    ELSE IF bookmarkableComparator(h, Head(s), x) <= 0
         THEN <<Head(s)>> \o SortInsert(h, Tail(s), x)
         ELSE <<x>> \o s

RECURSIVE SortFrom(_, _, _)
SortFrom(h, done, rest) ==
    IF rest = <<>> THEN done
    ELSE SortFrom(h, SortInsert(h, done, Head(rest)), Tail(rest))

sortUnsorted(h, s) == s

sort(h, s) == SortFrom(h, <<>>, s)

\* ------------------------------------------------------------ deep listings
\* the breadcrumb of groupsDeep / favoritesDeep: the labels of the ancestors
Breadcrumb(h, ancestors) == [i \in 1..Len(ancestors) |-> h[ancestors[i]].label]

SetDescription(h, ids, breadcrumb) ==
    [i \in 1..Len(h) |-> IF i \in Range(ids) THEN [h[i] EXCEPT !.description = breadcrumb]
                         ELSE h[i]]

\* Group.groupsDeep(ancestors): the heap with the descriptions it sets, and
\* the list it returns
RECURSIVE groupsDeep(_, _, _, _)
RECURSIVE groupsDeepEach(_, _, _, _)
groupsDeep(h, g, ancestors, fuel) ==
    IF fuel = 0 THEN [h |-> h, list |-> <<>>]
    ELSE groupsDeepEach(h, SelectSeq(h[g].children, LAMBDA x : isGroup(h, x)),
                        Append(ancestors, g), fuel)

groupsDeepEach(h, grps, ancestors, fuel) ==
    IF grps = <<>> THEN [h |-> h, list |-> <<>>]
    ELSE LET x == Head(grps)
             h1 == SetDescription(h, <<x>>, Breadcrumb(h, ancestors))
             sub == groupsDeep(h1, x, ancestors, fuel - 1)
             rest == groupsDeepEach(sub.h, Tail(grps), ancestors, fuel)
         IN [h |-> rest.h, list |-> sub.list \o <<x>> \o rest.list]

\* Group.favoritesDeep(ancestors)
RECURSIVE favoritesDeep(_, _, _, _)
RECURSIVE favoritesDeepEach(_, _, _, _)
favoritesDeepOwnOnly(h, g, ancestors, fuel) ==
    LET favs == SelectSeq(h[g].children, LAMBDA x : ~isGroup(h, x))
    IN [h |-> SetDescription(h, favs, Breadcrumb(h, Append(ancestors, g))), list |-> favs]

favoritesDeep(h, g, ancestors, fuel) ==
    IF fuel = 0 THEN [h |-> h, list |-> <<>>]
    ELSE LET anc == Append(ancestors, g)
             favs == SelectSeq(h[g].children, LAMBDA x : ~isGroup(h, x))
             h1 == SetDescription(h, favs, Breadcrumb(h, anc))
             childs == favoritesDeepEach(h1, SelectSeq(h[g].children,
                                                       LAMBDA x : isGroup(h, x)),
                                         anc, fuel)
         IN [h |-> childs.h, list |-> favs \o childs.list]

favoritesDeepEach(h, grps, ancestors, fuel) ==
    IF grps = <<>> THEN [h |-> h, list |-> <<>>]
    ELSE LET sub == favoritesDeep(h, Head(grps), ancestors, fuel - 1)
             rest == favoritesDeepEach(sub.h, Tail(grps), ancestors, fuel)
         IN [h |-> rest.h, list |-> sub.list \o rest.list]

\* FavoriteStore.root(): sorts _favorites in place and returns it
storeRoot(h, favs) == sort(h, favs)

\* FavoriteStore.groups()
RECURSIVE storeGroupsEach(_, _)
storeGroupsEach(h, grps) ==
    IF grps = <<>> THEN [h |-> h, list |-> <<>>]
    ELSE LET children == groupsDeep(h, Head(grps), <<>>, Len(h))
             rest == storeGroupsEach(children.h, Tail(grps))
         IN [h |-> rest.h, list |-> children.list \o <<Head(grps)>> \o rest.list]

storeGroupsUnsorted(h, favs) ==
    storeGroupsEach(h, SelectSeq(favs, LAMBDA x : isGroup(h, x)))

storeGroups(h, favs) ==
    LET res == storeGroupsEach(h, SelectSeq(favs, LAMBDA x : isGroup(h, x)))
    IN [h |-> res.h, list |-> sort(res.h, res.list)]

\* FavoriteStore.favorites()
RECURSIVE storeFavoritesEach(_, _)
storeFavoritesEach(h, grps) ==
    IF grps = <<>> THEN [h |-> h, list |-> <<>>]
    ELSE LET deep == favoritesDeep(h, Head(grps), <<>>, Len(h))
             rest == storeFavoritesEach(deep.h, Tail(grps))
         IN [h |-> rest.h, list |-> deep.list \o rest.list]

storeFavoritesTopOnly(h, favs) ==
    [h |-> h, list |-> SelectSeq(favs, LAMBDA x : ~isGroup(h, x))]

storeFavorites(h, favs) ==
    LET res == storeFavoritesEach(h, SelectSeq(favs, LAMBDA x : isGroup(h, x)))
    IN [h |-> res.h, list |-> SelectSeq(favs, LAMBDA x : ~isGroup(h, x)) \o res.list]

\* ------------------------------------------------------------- tree items
\* toTreeItem() of the three classes: the heap the call leaves and the item it
\* returns.  Group.toTreeItem calls this.favoritesDeep() for the contextValue.
toTreeItem(h, id) ==
    IF h[id].cls = "Group" THEN
        LET deep == favoritesDeep(h, id, <<>>, Len(h))
        IN [h |-> deep.h,
            item |-> [label |-> h[id].label, collapsibleState |-> "Collapsed",
                      iconPath |-> "folder", command |-> Nil,
                      contextValue |-> IF Len(deep.list) > 0 THEN "group"
                                       ELSE "group-empty"]]
    ELSE IF h[id].cls = "Folder" THEN
        [h |-> h,
         item |-> [label |-> h[id].label, collapsibleState |-> "None",
                   iconPath |-> "files", command |-> id, contextValue |-> "folder"]]
    ELSE
        [h |-> h,
         item |-> [label |-> h[id].label, collapsibleState |-> "None",
                   iconPath |-> "file", command |-> id, contextValue |-> ""]]

\* -------------------------------------------------------------- activation
\* Favorite.activate() / Folder.activate() on an entity whose resource is in
\* broken (file deleted, folder unreadable).  showTextDocument returns a
\* promise that rejects and that activate does not keep; glob.sync returns no
\* match for a folder it cannot read.  Neither throws, both return void.
activateOne(h, f, broken) ==
    [threw |-> FALSE,
     failure |-> IF f \notin broken THEN "none"
                 ELSE IF h[f].cls = "Folder" THEN "glob.sync"
                 ELSE "showTextDocument"]

\* list.forEach(f => f.activate()): a throw would end the loop
RECURSIVE activateEach(_, _, _)
activateEach(h, list, broken) ==
    IF list = <<>> THEN [activated |-> <<>>, failure |-> "none", threw |-> FALSE]
    ELSE LET one == activateOne(h, Head(list), broken)
         IN IF one.threw
            THEN [activated |-> <<Head(list)>>, failure |-> one.failure, threw |-> TRUE]
            ELSE LET rest == activateEach(h, Tail(list), broken)
                 IN [activated |-> <<Head(list)>> \o rest.activated,
                     failure |-> IF one.failure # "none" THEN one.failure
                                 ELSE rest.failure,
                     threw |-> rest.threw]

\* Group.activate(): this.favoritesDeep().forEach(f => f.activate())
activate(h, g, broken) ==
    LET deep == favoritesDeep(h, g, <<>>, Len(h))
        each == activateEach(deep.h, deep.list, broken)
    IN [h |-> deep.h, activated |-> each.activated, failure |-> each.failure,
        threw |-> each.threw]

\* Favorite.location() / Folder.location(): [this.resourceUri]
locationOne(h, f) == <<[scheme |-> "file", path |-> h[f].resourcePath]>>

RECURSIVE locationEach(_, _)
locationEach(h, list) ==
    IF list = <<>> THEN <<>>
    ELSE locationOne(h, Head(list)) \o locationEach(h, Tail(list))

\* Group.location(): this.favoritesDeep().flatMap(f => f.location()); visited
\* lists the entities whose location() was called
location(h, g) ==
    LET deep == favoritesDeep(h, g, <<>>, Len(h))
    IN [h |-> deep.h, visited |-> deep.list, uris |-> locationEach(deep.h, deep.list)]

\* ------------------------------------------------------- store mutations
\* The store state threaded through a handler: heap, _favorites and the
\* writes handed to storage so far.
St(h, favs, w) == [h |-> h, favs |-> favs, w |-> w]

\* FavoriteStore.add(...bk): push(...bk), then persist() (not awaited); bk is
\* the list of the arguments
addSkipsDuplicates(s, bk) ==
    LET fresh == SelectSeq(bk, LAMBDA x :
                     \A i \in 1..Len(s.favs) :
                         s.h[s.favs[i]].resourcePath # s.h[x].resourcePath)
        favs == s.favs \o fresh
    IN St(s.h, favs, persist(s.h, favs, s.w))

add(s, bk) ==
    LET favs == s.favs \o bk
    IN St(s.h, favs, persist(s.h, favs, s.w))

\* FavoriteStore.update(): persist()
update(s) == St(s.h, s.favs, persist(s.h, s.favs, s.w))

\* the body of the forEach in FavoriteStore.delete
deleteOnePromotes(s, x) ==
    IF s.h[x].parent # Nil /\ isGroup(s.h, s.h[x].parent)
    THEN St(removeChild(s.h, s.h[x].parent, x), s.favs \o s.h[x].children, s.w)
    ELSE St(s.h, Splice1(s.favs, IndexOf(s.favs, x)) \o s.h[x].children, s.w)

deleteOne(s, x) ==
    IF s.h[x].parent # Nil /\ isGroup(s.h, s.h[x].parent)
    THEN St(removeChild(s.h, s.h[x].parent, x), s.favs, s.w)
    ELSE St(s.h, Splice1(s.favs, IndexOf(s.favs, x)), s.w)

RECURSIVE deleteEach(_, _)
deleteEach(s, bk) ==
    IF bk = <<>> THEN s ELSE deleteEach(deleteOne(s, Head(bk)), Tail(bk))

\* FavoriteStore.delete(...bk): all removals, then one persist()
RECURSIVE deletePersistsEach(_, _)
deletePersistsEach(s, bk) ==
    IF bk = <<>> THEN s
    ELSE LET s1 == deleteOne(s, Head(bk))
         IN deletePersistsEach(St(s1.h, s1.favs, persist(s1.h, s1.favs, s1.w)), Tail(bk))

delete(s, bk) ==
    LET s1 == deleteEach(s, bk)
    IN St(s1.h, s1.favs, persist(s1.h, s1.favs, s1.w))

\* ------------------------------------------------------- change notification
\* FavoritesTreeDataProvider.refresh(f): this._onDidChangeTreeData.fire(f).  The
\* listeners run at once: fired counts the notifications of the command so
\* far, after is the number of statements changing the tree or calling the
\* store that the command had run when the listener of the last one ran.
NoNotice == [fired |-> 0, after |-> 0]

providerRefreshBefore(n, statements) == [fired |-> n.fired + 1, after |-> 0]

providerRefresh(n, statements) == [fired |-> n.fired + 1, after |-> statements]

\* what a command of that many statements has notified: applied tells that
\* the listener ran after the last of them
Notified(n, statements) == [fired |-> n.fired, applied |-> n.after = statements]

\* ----------------------------------------------------------------- state
NoPrompt == [cmd |-> "none", arg |-> Nil, offered |-> {}]
NoLast ==
    [op |-> "none", e |-> Nil, from |-> Nil, to |-> Nil, detached |-> FALSE, lost |-> FALSE,
     fired |-> 0, applied |-> FALSE]
\* given: the arguments of the call; written: the documents it handed to
\* writeFile
NoOutcome ==
    [op |-> "none", e |-> Nil, threw |-> "none", rejected |-> FALSE, result |-> <<>>,
     fired |-> 0, given |-> <<>>, written |-> <<>>]

\* restore.json: absent, or holding a list of paths
Absent == [present |-> FALSE, doc |-> <<>>]
Holding(doc) == [present |-> TRUE, doc |-> doc]

\* created: the list the last createRestorationPoint to resolve was given, no
\* other call having been made since; consumed: a loadResorationPoint has
\* returned the list of the file and no createRestorationPoint was called since
NoPoint == [created |-> FALSE, paths |-> <<>>, consumed |-> FALSE]
NotLoading == [at |-> "idle", created |-> FALSE, paths |-> <<>>, consumed |-> FALSE]

NoRestoration ==
    /\ restoreFile = Absent
    /\ restoreOps = <<>>
    /\ loading = NotLoading
    /\ point = NoPoint

SampleFav == [label |-> 1, resourcePath |-> SelectedPath]
SampleGroup == [label |-> 1, children |-> <<SampleFav>>]
Docs == {<<>>, <<SampleFav>>, <<SampleGroup>>}

Init ==
    /\ heap = <<RootGroupObj>>
    /\ favorites = <<>>
    /\ file \in Docs
    /\ writes = <<>>
    /\ refreshes = 1
    /\ prompt = NoPrompt
    /\ confirms = {}
    /\ last = NoLast
    /\ fileKind = "list"
    /\ outcome = NoOutcome
    /\ NoRestoration

\* ------------------------------------------------------ garbage collection
\* Objects that no variable of the program can reach any more are reclaimed
\* and the remaining identities are renumbered in allocation order.
RECURSIVE Closure(_, _, _)
Closure(h, S, n) ==
    IF n = 0 THEN S
    ELSE LET T == (S \cup UNION {Range(h[x].children) : x \in S}
                      \cup {h[x].parent : x \in S}) \ {Nil}
         IN IF T = S THEN S ELSE Closure(h, T, n - 1)

Live(h, favs, p, c, l) ==
    Closure(h, ({RootGroup} \cup Range(favs) \cup {p.arg} \cup p.offered \cup c
                   \cup {l.e, l.from, l.to}) \ {Nil}, Len(h))

Ren(live, x) == IF x = Nil THEN Nil ELSE Cardinality({y \in live : y <= x})

Nth(live, i) == CHOOSE x \in live : Cardinality({y \in live : y <= x}) = i

Compact(h, live) ==
    [i \in 1..Cardinality(live) |->
        [h[Nth(live, i)] EXCEPT !.parent = Ren(live, @),
                                !.children = [j \in DOMAIN @ |-> Ren(live, @[j])]]]

\* the state a handler leaves behind
Post(h, favs, w, p, c, l) ==
    LET live == Live(h, favs, p, c, l)
    IN /\ Cardinality(live) <= MaxObj
       /\ heap' = Compact(h, live)
       /\ favorites' = [i \in DOMAIN favs |-> Ren(live, favs[i])]
       /\ writes' = w
       /\ prompt' = [cmd |-> p.cmd, arg |-> Ren(live, p.arg),
                     offered |-> {Ren(live, x) : x \in p.offered}]
       /\ confirms' = {Ren(live, x) : x \in c}
       /\ last' = [l EXCEPT !.e = Ren(live, @), !.from = Ren(live, @), !.to = Ren(live, @)]
       /\ UNCHANGED <<fileKind, outcome>>
       /\ UNCHANGED restoreVars

Cur == St(heap, favorites, writes)

\* what the tree view shows: the entities reachable from the root collection
Shown == Reach(heap, favorites)

New(kind, label) ==
    IF kind = "Folder" THEN NewFolder(label, SelectedPath, DefaultFileFiter)
    ELSE NewFavorite(label, SelectedPath)

\* --------------------------------------------------------------- commands
\* addToFavorites(node, kind, false) once the label prompt has returned label
AddToFavorites(kind, label) ==
    /\ Len(writes) < MaxWrites
    /\ LET fav == Len(heap) + 1
           s == add(St(Append(heap, New(kind, label)), favorites, writes), <<fav>>)
           n == Notified(providerRefresh(NoNotice, 1), 1)
       IN Post(s.h, s.favs, s.w, prompt, confirms,
               [NoLast EXCEPT !.op = "add", !.e = fav,
                              !.fired = n.fired, !.applied = n.applied])
    /\ UNCHANGED <<file, refreshes>>

\* addToFavorites(node, kind, true) up to the quick pick of promptGroupSelection(false)
AddToGroupPrompt(kind, label) ==
    /\ prompt = NoPrompt
    /\ groups(heap, favorites) # {}
    /\ Post(Append(heap, New(kind, label)), favorites, writes,
            [cmd |-> "add", arg |-> Len(heap) + 1, offered |-> groups(heap, favorites)],
            confirms, NoLast)
    /\ UNCHANGED <<file, refreshes>>

\* ... and from the quick pick on, the user having picked group
AddToGroupPick(group) ==
    /\ prompt.cmd = "add"
    /\ group \in prompt.offered
    /\ Len(writes) < MaxWrites
    /\ LET s == update(St(addChild(heap, group, prompt.arg), favorites, writes))
           n == Notified(providerRefresh(NoNotice, 2), 2)
       IN Post(s.h, s.favs, s.w, NoPrompt, confirms,
               [NoLast EXCEPT !.op = "addToGroup", !.e = prompt.arg, !.to = group,
                              !.fired = n.fired, !.applied = n.applied])
    /\ UNCHANGED <<file, refreshes>>

\* createGroup(parent) up to the label input box
CreateGroupPrompt(parent) ==
    /\ prompt = NoPrompt
    /\ parent = Nil \/ parent \in groups(heap, favorites)
    /\ Post(heap, favorites, writes, [NoPrompt EXCEPT !.cmd = "group", !.arg = parent],
            confirms, NoLast)
    /\ UNCHANGED <<file, refreshes>>

\* ... and from the input box on, the user having typed label
CreateGroupLabel(label) ==
    /\ prompt.cmd = "group"
    /\ Len(writes) < MaxWrites
    /\ LET group == Len(heap) + 1
           h1 == Append(heap, NewGroup(label))
           s == IF prompt.arg # Nil
                THEN update(St(addChild(h1, prompt.arg, group), favorites, writes))
                ELSE add(St(h1, favorites, writes), <<group>>)
           statements == IF prompt.arg # Nil THEN 2 ELSE 1
           n == Notified(providerRefresh(NoNotice, statements), statements)
       IN Post(s.h, s.favs, s.w, NoPrompt, confirms,
               [NoLast EXCEPT !.op = "createGroup", !.e = group, !.to = prompt.arg,
                              !.fired = n.fired, !.applied = n.applied])
    /\ UNCHANGED <<file, refreshes>>

\* removeFavorite(favorite) up to the warning message
RemoveFavorite(favorite) ==
    /\ favorite \in Shown
    /\ favorite \notin confirms
    /\ Cardinality(confirms) < MaxConfirms
    /\ Post(heap, favorites, writes, prompt, confirms \cup {favorite}, NoLast)
    /\ UNCHANGED <<file, refreshes>>

\* ... answered 'Yes': store.delete(favorite)
RemoveYes(favorite) ==
    /\ favorite \in confirms
    /\ Len(writes) < MaxWrites
    /\ LET s == delete(Cur, <<favorite>>)
           n == Notified(providerRefresh(NoNotice, 1), 1)
       IN Post(s.h, s.favs, s.w, prompt, confirms \ {favorite},
               [NoLast EXCEPT !.op = "delete", !.e = favorite,
                              !.from = heap[favorite].parent,
                              !.fired = n.fired, !.applied = n.applied])
    /\ UNCHANGED <<file, refreshes>>

\* ... answered 'No' or dismissed
RemoveNo(favorite) ==
    /\ favorite \in confirms
    /\ Post(heap, favorites, writes, prompt, confirms \ {favorite}, NoLast)
    /\ UNCHANGED <<file, refreshes>>

\* promptGroupSelection(true, favorite.parent ?? RootGroup): the items offered
MoveTargetsAll(h, favs, favorite) == {RootGroup} \cup groups(h, favs)

MoveTargets(h, favs, favorite) ==
    ({RootGroup} \cup groups(h, favs))
        \ {IF h[favorite].parent # Nil THEN h[favorite].parent ELSE RootGroup}

\* moveFavorite(favorite) up to the quick pick
MoveFavoritePrompt(favorite) ==
    /\ prompt = NoPrompt
    /\ favorite \in Shown
    /\ Post(heap, favorites, writes,
            [cmd |-> "move", arg |-> favorite,
             offered |-> MoveTargets(heap, favorites, favorite)],
            confirms, NoLast)
    /\ UNCHANGED <<file, refreshes>>

\* the steps of moveFavorite after the quick pick returned group
MoveDetach(s, favorite) ==
    IF s.h[favorite].parent # Nil
    THEN St(removeChild(s.h, s.h[favorite].parent, favorite), s.favs, s.w)
    ELSE delete(s, <<favorite>>)

MoveAttachAsChild(s, favorite, group) ==
    St(addChild(s.h, group, favorite), s.favs, s.w)

MoveAttach(s, favorite, group) ==
    IF group = RootGroup
    THEN add(s, <<favorite>>)
    ELSE St(addChild(s.h, group, favorite), s.favs, s.w)

MoveFavoritePick(group) ==
    /\ prompt.cmd = "move"
    /\ group \in prompt.offered
    /\ Len(writes) + 2 <= MaxWrites
    /\ LET favorite == prompt.arg
           s1 == MoveDetach(Cur, favorite)
           s2 == MoveAttach(s1, favorite, group)
           s3 == update(s2)
           n == Notified(providerRefresh(NoNotice, 3), 3)
       IN Post(s3.h, s3.favs, s3.w, NoPrompt, confirms,
               [op |-> "move", e |-> favorite, from |-> heap[favorite].parent,
                to |-> group, lost |-> FALSE, fired |-> n.fired, applied |-> n.applied,
                detached |->
                   \/ Len(s1.w) > Len(writes) /\ favorite \notin Reach(s1.h, s1.favs)
                   \/ Len(s2.w) > Len(s1.w) /\ favorite \notin Reach(s2.h, s2.favs)
                   \/ Len(s3.w) > Len(s2.w) /\ favorite \notin Reach(s3.h, s3.favs)])
    /\ UNCHANGED <<file, refreshes>>

\* the quick pick or input box is dismissed: the command returns
PromptCancelAdds ==
    /\ prompt # NoPrompt
    /\ prompt.cmd # "filter"
    /\ LET s == IF prompt.cmd = "add" THEN add(Cur, <<prompt.arg>>) ELSE Cur
       IN Post(s.h, s.favs, s.w, NoPrompt, confirms, NoLast)
    /\ UNCHANGED <<file, refreshes>>

PromptCancel ==
    /\ prompt # NoPrompt
    /\ prompt.cmd # "filter"
    /\ Post(heap, favorites, writes, NoPrompt, confirms, NoLast)
    /\ UNCHANGED <<file, refreshes>>

\* ----------------------------------------------------------------- refresh
\* reloadFavorites(): refresh() up to the await of readFile
ReloadFavorites ==
    /\ refreshes < MaxRefresh
    /\ refreshes' = refreshes + 1
    /\ Post(heap, favorites, writes, prompt, confirms,
            IF last.op = "add" /\ refreshes = 0
            THEN [NoLast EXCEPT !.op = "reloadAfterAdd"] ELSE NoLast)
    /\ UNCHANGED file

\* the user saves favorites.json in the editor: onDidSaveTextDocument -> reloadFavorites()
SaveTextDocument(doc) ==
    /\ refreshes < MaxRefresh
    /\ file # doc
    /\ file' = doc
    /\ refreshes' = refreshes + 1
    /\ Post(heap, favorites, writes, prompt, confirms, NoLast)

\* readFile returns the stored document: it is parsed and restored
RefreshComplete ==
    /\ refreshes > 0
    /\ refreshes' = refreshes - 1
    /\ LET r == restoreAll(heap, file, Nil)
       IN Post(r.h, r.ids, writes, prompt, confirms,
               IF last.op = "reloadAfterAdd"
               THEN [NoLast EXCEPT !.op = "refreshedAfterAdd",
                                   !.lost = Stringify(r.h, r.ids) # Stringify(heap, favorites)]
               ELSE NoLast)
    /\ UNCHANGED file

\* ----------------------------------------------------------------- storage
\* the storage layer completes one of the writes in flight
WriteComplete(i) ==
    /\ i \in 1..Len(writes)
    /\ file' = writes[i]
    /\ Post(heap, favorites, RemoveAt(writes, i), prompt, confirms,
            IF last.op \in {"add", "reloadAfterAdd"} THEN last ELSE NoLast)
    /\ UNCHANGED refreshes

Next ==
    \/ \E k \in Kinds, l \in Labels : AddToFavorites(k, l)
    \/ \E k \in Kinds, l \in Labels : AddToGroupPrompt(k, l)
    \/ \E g \in 1..Len(heap) : AddToGroupPick(g)
    \/ \E p \in 0..Len(heap) : CreateGroupPrompt(p)
    \/ \E l \in Labels : CreateGroupLabel(l)
    \/ \E f \in 1..Len(heap) : RemoveFavorite(f)
    \/ \E f \in 1..Len(heap) : RemoveYes(f)
    \/ \E f \in 1..Len(heap) : RemoveNo(f)
    \/ \E f \in 1..Len(heap) : MoveFavoritePrompt(f)
    \/ \E g \in 1..Len(heap) : MoveFavoritePick(g)
    \/ PromptCancel
    \/ ReloadFavorites
    \/ \E d \in Docs : SaveTextDocument(d)
    \/ RefreshComplete
    \/ \E i \in 1..MaxWrites : WriteComplete(i)

Spec == Init /\ [][Next]_vars

\* The same handlers when the user acts only while the storage layer is idle:
\* every write and every read issued so far has completed before the next
\* command or reload is started.
Idle == writes = <<>> /\ refreshes = 0

NextQuiet ==
    \/ \E k \in Kinds, l \in Labels : Idle /\ AddToFavorites(k, l)
    \/ \E k \in Kinds, l \in Labels : Idle /\ AddToGroupPrompt(k, l)
    \/ \E g \in 1..Len(heap) : Idle /\ AddToGroupPick(g)
    \/ \E p \in 0..Len(heap) : Idle /\ CreateGroupPrompt(p)
    \/ \E l \in Labels : Idle /\ CreateGroupLabel(l)
    \/ \E f \in 1..Len(heap) : Idle /\ RemoveFavorite(f)
    \/ \E f \in 1..Len(heap) : Idle /\ RemoveYes(f)
    \/ \E f \in 1..Len(heap) : Idle /\ RemoveNo(f)
    \/ \E f \in 1..Len(heap) : Idle /\ MoveFavoritePrompt(f)
    \/ \E g \in 1..Len(heap) : Idle /\ MoveFavoritePick(g)
    \/ Idle /\ PromptCancel
    \/ Idle /\ ReloadFavorites
    \/ \E d \in Docs : Idle /\ SaveTextDocument(d)
    \/ RefreshComplete
    \/ \E i \in 1..MaxWrites : WriteComplete(i)

SpecQuiet == Init /\ [][NextQuiet]_vars

\* ------------------------------------------- the commands and their prompts
\* The commands with what their input boxes can return, the rename and the
\* change of a Folder's filter included, the user running one command at a
\* time while the storage layer is idle, and the file not being reloaded.
CmdKinds == {"Favorite", "Folder"}
Filters == {DefaultFileFiter, "*.ts"}

\* what the label input box returns: a label, or 0 for '' and for undefined
\* (the box was dismissed)
Inputs == 0..NumLabels

\* `if (!label) { return; }` / `if (label) { ... }`
EnteredAny(label) == TRUE

Entered(label) == label # 0

\* the command returns without having called the store
Returns(p) ==
    /\ Post(heap, favorites, writes, p, confirms, [NoLast EXCEPT !.op = "returned"])
    /\ UNCHANGED <<file, refreshes>>

\* addToFavorites(node, kind, false), the label box having returned label
AddToFavoritesInput(kind, label) ==
    IF Entered(label) THEN AddToFavorites(kind, label) ELSE Returns(prompt)

\* addToFavorites(node, kind, true) up to the quick pick: no entity without a
\* label, and promptGroupSelection(false) returns undefined after a warning
\* when the store has no group
AddToGroupInput(kind, label) ==
    IF Entered(label) /\ groups(heap, favorites) # {}
    THEN AddToGroupPrompt(kind, label)
    ELSE Returns(prompt)

\* createGroup(parent) from the input box on
CreateGroupInput(label) ==
    /\ prompt.cmd = "group"
    /\ IF Entered(label) THEN CreateGroupLabel(label) ELSE Returns(NoPrompt)

\* renameFavorite(bk) up to the input box
RenameFavoritePrompt(bk) ==
    /\ prompt = NoPrompt
    /\ bk \in Shown
    /\ Post(heap, favorites, writes, [NoPrompt EXCEPT !.cmd = "rename", !.arg = bk],
            confirms, NoLast)
    /\ UNCHANGED <<file, refreshes>>

\* ... bk.label = label; store.update(bk); provider.refresh(bk)
RenameFavoriteLabel(label) ==
    /\ Len(writes) < MaxWrites
    /\ LET bk == prompt.arg
           s == update(St([heap EXCEPT ![bk].label = label], favorites, writes))
           n == Notified(providerRefresh(NoNotice, 2), 2)
       IN Post(s.h, s.favs, s.w, NoPrompt, confirms,
               [NoLast EXCEPT !.op = "rename", !.e = bk,
                              !.fired = n.fired, !.applied = n.applied])
    /\ UNCHANGED <<file, refreshes>>

RenameFavoriteInput(label) ==
    /\ prompt.cmd = "rename"
    /\ IF Entered(label) THEN RenameFavoriteLabel(label) ELSE Returns(NoPrompt)

\* changeFileFilter(node) up to the input box
ChangeFileFilterPrompt(node) ==
    /\ prompt = NoPrompt
    /\ node \in Shown
    /\ heap[node].cls = "Folder"
    /\ Post(heap, favorites, writes, [NoPrompt EXCEPT !.cmd = "filter", !.arg = node],
            confirms, NoLast)
    /\ UNCHANGED <<file, refreshes>>

\* ... the box having returned input ("" for '' and for undefined):
\* filter = input || Folder.DefaultFileFiter; node.filter = filter;
\* store.update(node); provider.refresh(node)
ChangeFileFilterInput(input) ==
    /\ prompt.cmd = "filter"
    /\ Len(writes) < MaxWrites
    /\ LET node == prompt.arg
           filter == IF input = "" THEN DefaultFileFiter ELSE input
           s == update(St([heap EXCEPT ![node].filter = filter], favorites, writes))
           n == Notified(providerRefresh(NoNotice, 2), 2)
       IN Post(s.h, s.favs, s.w, NoPrompt, confirms,
               [NoLast EXCEPT !.op = "filter", !.e = node,
                              !.fired = n.fired, !.applied = n.applied])
    /\ UNCHANGED <<file, refreshes>>

InitCommand ==
    /\ heap = <<RootGroupObj>>
    /\ favorites = <<>>
    /\ file = <<>>
    /\ writes = <<>>
    /\ refreshes = 0
    /\ prompt = NoPrompt
    /\ confirms = {}
    /\ last = NoLast
    /\ fileKind = "list"
    /\ outcome = NoOutcome
    /\ NoRestoration

\* no command is suspended at a prompt or at a warning
Alone == Idle /\ prompt = NoPrompt /\ confirms = {}

NextCommand ==
    \/ \E k \in CmdKinds, l \in Inputs : Alone /\ AddToFavoritesInput(k, l)
    \/ \E k \in CmdKinds, l \in Inputs : Alone /\ AddToGroupInput(k, l)
    \/ \E g \in 1..Len(heap) : Idle /\ AddToGroupPick(g)
    \/ \E p \in 0..Len(heap) : Alone /\ CreateGroupPrompt(p)
    \/ \E l \in Inputs : Idle /\ CreateGroupInput(l)
    \/ \E f \in 1..Len(heap) : Alone /\ RemoveFavorite(f)
    \/ \E f \in 1..Len(heap) : Idle /\ RemoveYes(f)
    \/ \E f \in 1..Len(heap) : Idle /\ RemoveNo(f)
    \/ \E f \in 1..Len(heap) : Alone /\ MoveFavoritePrompt(f)
    \/ \E g \in 1..Len(heap) : Idle /\ MoveFavoritePick(g)
    \/ \E f \in 1..Len(heap) : Alone /\ RenameFavoritePrompt(f)
    \/ \E l \in Inputs : Idle /\ RenameFavoriteInput(l)
    \/ \E f \in 1..Len(heap) : Alone /\ ChangeFileFilterPrompt(f)
    \/ \E i \in Filters \cup {""} : Idle /\ ChangeFileFilterInput(i)
    \/ Idle /\ PromptCancel
    \/ \E i \in 1..MaxWrites : WriteComplete(i)

SpecCommand == InitCommand /\ [][NextCommand]_vars

\* ------------------------------------------------- the store, call by call
\* The store and the entity model driven one call at a time, every write
\* reaching the file before the next call: add, nest (addChild + update),
\* move, rename, delete, the in-place sorts of root() and of the tree view,
\* and the listings groups() and favorites().
StoreKinds == {"Group", "Favorite", "Folder"}
ListKinds == {"Group", "Favorite"}
StoreLabels == 1..NumStoreLabels

NewEntity(kind, label) ==
    IF kind = "Group" THEN NewGroup(label) ELSE New(kind, label)

\* the entities of the tree in depth-first order, from the root collection
RECURSIVE Dfs(_, _, _)
Dfs(h, ids, fuel) ==
    IF ids = <<>> \/ fuel = 0 THEN <<>>
    ELSE <<Head(ids)>> \o Dfs(h, h[Head(ids)].children, fuel - 1)
                       \o Dfs(h, Tail(ids), fuel)

RECURSIVE Dedup(_)
Dedup(s) ==
    IF s = <<>> THEN <<>>
    ELSE <<Head(s)>> \o Dedup(SelectSeq(Tail(s), LAMBDA x : x # Head(s)))

Pos(order, x) ==
    IF x \in Range(order) THEN CHOOSE i \in 1..Len(order) : order[i] = x ELSE Nil

\* the memory a call leaves behind: unreachable objects are reclaimed and the
\* identities renumbered in depth-first order
Tidy(h, favs, o) ==
    LET order == Dedup(<<RootGroup>> \o Dfs(h, favs, Len(h)))
    IN /\ Len(order) <= MaxEntities + 1
       /\ heap' = [i \in 1..Len(order) |->
                     [h[order[i]] EXCEPT
                         !.parent = Pos(order, @),
                         !.children = [j \in DOMAIN @ |-> Pos(order, @[j])]]]
       /\ favorites' = [i \in DOMAIN favs |-> Pos(order, favs[i])]
       /\ outcome' = [o EXCEPT !.e = Pos(order, @),
                               !.result = [j \in DOMAIN @ |-> Pos(order, @[j])]]
       /\ UNCHANGED <<prompt, confirms, last>>
       /\ UNCHANGED restoreVars

\* ... the write the call issued, if any, having reached the file
PostStore(s, o) ==
    /\ Tidy(s.h, s.favs, o)
    /\ file' = IF s.w = <<>> THEN file ELSE s.w[Len(s.w)]
    /\ UNCHANGED <<writes, refreshes, fileKind>>

Did(op, e, result) == [NoOutcome EXCEPT !.op = op, !.e = e, !.result = result]

InitStore ==
    /\ heap = <<RootGroupObj>>
    /\ favorites = <<>>
    /\ file = <<>>
    /\ writes = <<>>
    /\ refreshes = 0
    /\ prompt = NoPrompt
    /\ confirms = {}
    /\ last = NoLast
    /\ fileKind = "list"
    /\ outcome = NoOutcome
    /\ NoRestoration

\* store.add(new entity)
StoreAdd(kind, label) ==
    /\ Len(heap) <= MaxEntities
    /\ LET e == Len(heap) + 1
       IN PostStore(add(St(Append(heap, NewEntity(kind, label)), favorites, <<>>), <<e>>),
                    NoOutcome)

\* group.addChild(new entity); store.update()
StoreNest(kind, label, group) ==
    /\ group \in groups(heap, favorites)
    /\ LET e == Len(heap) + 1
       IN PostStore(update(St(addChild(Append(heap, NewEntity(kind, label)), group, e),
                              favorites, <<>>)),
                    NoOutcome)

\* the steps of moveFavorite once the target is known
StoreMove(e, group) ==
    /\ e \in Shown
    /\ group \in MoveTargets(heap, favorites, e)
    /\ PostStore(update(MoveAttach(MoveDetach(St(heap, favorites, <<>>), e), e, group)),
                 NoOutcome)

\* bk.label = label; store.update(bk)
StoreRename(e, label) ==
    /\ e \in Shown
    /\ heap[e].label # label
    /\ PostStore(update(St([heap EXCEPT ![e].label = label], favorites, <<>>)),
                 NoOutcome)

\* store.delete(e)
StoreDelete(e) ==
    /\ e \in Shown
    /\ PostStore(delete(St(heap, favorites, <<>>), <<e>>), NoOutcome)

\* store.root()
StoreRoot ==
    /\ writes = <<>>
    /\ LET r == storeRoot(heap, favorites)
       IN PostStore(St(heap, r, <<>>), Did("root", Nil, r))

\* FavoritesTreeDataProvider.getChildren(group)
GetChildren(group) ==
    /\ group \in groups(heap, favorites)
    /\ PostStore(St([heap EXCEPT ![group].children = sort(heap, @)], favorites, <<>>),
                 NoOutcome)

\* store.groups()
StoreGroups ==
    /\ writes = <<>>
    /\ LET r == storeGroups(heap, favorites)
       IN PostStore(St(r.h, favorites, <<>>), Did("groups", Nil, r.list))

\* store.favorites()
StoreFavorites ==
    /\ writes = <<>>
    /\ LET r == storeFavorites(heap, favorites)
       IN PostStore(St(r.h, favorites, <<>>), Did("favorites", Nil, r.list))

\* store.refresh(), the file holding what the last call wrote
StoreReload ==
    /\ writes = <<>>
    /\ LET r == refresh(heap, favorites, fileKind, file)
       IN Tidy(r.h, r.favs, [NoOutcome EXCEPT !.op = "refresh", !.threw = r.threw,
                                             !.rejected = r.rejected,
                                             !.fired = r.fired, !.result = r.seen])
    /\ UNCHANGED <<file, fileKind, writes, refreshes>>

NextStore ==
    \/ \E k \in ListKinds, l \in StoreLabels : StoreAdd(k, l)
    \/ \E k \in ListKinds, l \in StoreLabels, g \in 1..Len(heap) : StoreNest(k, l, g)
    \/ \E e \in 1..Len(heap), g \in 1..Len(heap) : StoreMove(e, g)
    \/ \E e \in 1..Len(heap), l \in StoreLabels : StoreRename(e, l)
    \/ \E e \in 1..Len(heap) : StoreDelete(e)
    \/ StoreRoot
    \/ \E g \in 1..Len(heap) : GetChildren(g)
    \/ StoreReload

SpecStore == InitStore /\ [][NextStore]_vars

\* add and delete called with several entities at once, on the trees that add,
\* nest and delete build.
Entities == [kind : ListKinds, label : StoreLabels]
EntityLists == SeqsUpTo(Entities, MaxArgs) \ {<<>>}

\* x and the entities below it, in depth-first order
Subtree(h, x) == Dfs(h, <<x>>, Len(h))

\* store.add(e1, ..., en), the entities being new
StoreAddAll(ents) ==
    /\ Len(heap) + Len(ents) <= MaxEntities + 1
    /\ LET h1 == heap \o [i \in DOMAIN ents |-> NewEntity(ents[i].kind, ents[i].label)]
           bk == [i \in DOMAIN ents |-> Len(heap) + i]
           s == add(St(h1, favorites, <<>>), bk)
       IN PostStore(s, [NoOutcome EXCEPT !.op = "add", !.result = bk, !.given = ents,
                                         !.written = s.w])

\* store.delete(e1, ..., en), the entities being in the tree; given: each
\* argument with the parent it had; result: the entities passed and those
\* below them
StoreDeleteAll(bk) ==
    /\ bk # <<>>
    /\ Range(bk) \subseteq Shown
    /\ LET s == delete(St(heap, favorites, <<>>), bk)
           gone == Dedup(Dfs(heap, bk, Len(heap)))
       IN PostStore(s, [NoOutcome EXCEPT !.op = "delete", !.result = gone,
                                         !.given = [i \in DOMAIN bk |->
                                                      [id |-> bk[i],
                                                       parent |-> heap[bk[i]].parent]],
                                         !.written = s.w])

NextEdit ==
    \/ \E ents \in EntityLists : StoreAddAll(ents)
    \/ \E k \in ListKinds, l \in StoreLabels, g \in 1..Len(heap) : StoreNest(k, l, g)
    \/ \E bk \in SeqsUpTo(1..Len(heap), MaxArgs) : StoreDeleteAll(bk)

SpecEdit == InitStore /\ [][NextEdit]_vars

\* ------------------------------------------------------------------ loading
\* refresh() on what favorites.json may hold after the user edited it.
LeafRec == [label |-> 1, resourcePath |-> SelectedPath]
FolderRec == [label |-> 1, filter |-> DefaultFileFiter, resourcePath |-> SelectedPath]
GroupRec(c) == [label |-> 1, children |-> c]
GroupFilterRec(c) == [label |-> 1, children |-> c, filter |-> DefaultFileFiter]

RECURSIVE RecsOfDepth(_)
RecsOfDepth(d) ==
    IF d = 0 THEN {LeafRec, FolderRec, GroupRec(<<>>), GroupFilterRec(<<>>), NullRecord}
    ELSE RecsOfDepth(d - 1)
            \cup {GroupRec(<<c>>) : c \in RecsOfDepth(d - 1)}
            \cup {GroupFilterRec(<<c>>) : c \in RecsOfDepth(d - 1)}

LoadDocs ==
    {<<>>} \cup {<<r>> : r \in RecsOfDepth(MaxEntities - 1)}
           \cup {<<LeafRec, r>> : r \in RecsOfDepth(0)}

\* what the file is when it is not a JSON list: absent, not JSON, the JSON
\* value null, a JSON number / string / boolean, a JSON object
OtherKinds == {"missing", "malformed", "null", "scalar", "object"}

InitLoad ==
    /\ heap = <<RootGroupObj>>
    /\ favorites = <<>>
    /\ \/ fileKind = "list" /\ file \in LoadDocs
       \/ fileKind \in OtherKinds /\ file = <<>>
    /\ writes = <<>>
    /\ refreshes = 1
    /\ prompt = NoPrompt
    /\ confirms = {}
    /\ last = NoLast
    /\ outcome = NoOutcome
    /\ NoRestoration

\* readFile answers the refresh() in flight
Refresh ==
    /\ refreshes > 0
    /\ refreshes' = refreshes - 1
    /\ LET r == refresh(heap, favorites, fileKind, file)
       IN Tidy(r.h, r.favs, [NoOutcome EXCEPT !.op = "refresh", !.threw = r.threw,
                                             !.rejected = r.rejected,
                                             !.fired = r.fired, !.result = r.seen])
    /\ UNCHANGED <<file, fileKind, writes>>

\* the user saves favorites.json with a list in it: reloadFavorites()
SaveList(doc) ==
    /\ refreshes = 0
    /\ fileKind # "list" \/ file # doc
    /\ file' = doc
    /\ fileKind' = "list"
    /\ refreshes' = 1
    /\ outcome' = NoOutcome
    /\ UNCHANGED <<heap, favorites, writes, prompt, confirms, last>>
    /\ UNCHANGED restoreVars

\* ... or with something else in it, or the file is removed and a reload asked
SaveOther(kind) ==
    /\ refreshes = 0
    /\ fileKind # kind
    /\ file' = <<>>
    /\ fileKind' = kind
    /\ refreshes' = 1
    /\ outcome' = NoOutcome
    /\ UNCHANGED <<heap, favorites, writes, prompt, confirms, last>>
    /\ UNCHANGED restoreVars

NextLoad ==
    \/ Refresh
    \/ \E d \in LoadDocs : SaveList(d)
    \/ \E k \in OtherKinds : SaveOther(k)

SpecLoad == InitLoad /\ [][NextLoad]_vars

\* refresh() on documents written by hand or by an older version, in which
\* records lack the label, the resourcePath, or both but for the filter.
NoPathRec == [label |-> 1]
NoLabelRec == [resourcePath |-> SelectedPath]
NoPathFolderRec == [label |-> 1, filter |-> DefaultFileFiter]
NoLabelFolderRec == [filter |-> DefaultFileFiter, resourcePath |-> SelectedPath]
NoLabelGroupRec(c) == [children |-> c]

LegacyLeaves == {LeafRec, NoPathRec, NoLabelRec, NoPathFolderRec, NoLabelFolderRec}

LegacyRecs ==
    LegacyLeaves \cup {GroupRec(<<>>), NoLabelGroupRec(<<>>)}
        \cup {GroupRec(<<c>>) : c \in LegacyLeaves}
        \cup {NoLabelGroupRec(<<c>>) : c \in LegacyLeaves}

LegacyDocs == {<<r>> : r \in LegacyRecs} \cup {<<LeafRec, r>> : r \in LegacyLeaves}

InitLegacy ==
    /\ heap = <<RootGroupObj>>
    /\ favorites = <<>>
    /\ fileKind = "list"
    /\ file \in LegacyDocs
    /\ writes = <<>>
    /\ refreshes = 1
    /\ prompt = NoPrompt
    /\ confirms = {}
    /\ last = NoLast
    /\ outcome = NoOutcome
    /\ NoRestoration

NextLegacy ==
    \/ Refresh
    \/ \E d \in LegacyDocs : SaveList(d)

SpecLegacy == InitLegacy /\ [][NextLegacy]_vars

\* ------------------------------------------------------------------ writing
\* add, update and delete called on the store one at a time, the write each
\* issues succeeding or failing later.
\* whether the promise the operation returned settles with the write: add()
\* calls persist() and returns, update() and delete() await persist()
AwaitsPersist(op) == op \in {"update", "delete"}

Called(s, o) ==
    /\ writes = <<>>
    /\ Tidy(s.h, s.favs, o)
    /\ writes' = s.w
    /\ UNCHANGED <<file, fileKind, refreshes>>

\* store.add(new entity)
CallAdd(kind, label) ==
    /\ Len(heap) <= MaxEntities
    /\ LET e == Len(heap) + 1
       IN Called(add(St(Append(heap, NewEntity(kind, label)), favorites, <<>>), <<e>>),
                 [NoOutcome EXCEPT !.op = "add", !.e = e])

\* bk.label = label; store.update(bk)
CallUpdate(e, label) ==
    /\ e \in Shown
    /\ heap[e].label # label
    /\ Called(update(St([heap EXCEPT ![e].label = label], favorites, <<>>)),
              [NoOutcome EXCEPT !.op = "update", !.e = e])

\* store.delete(e)
CallDelete(e) ==
    /\ e \in Shown
    /\ Called(delete(St(heap, favorites, <<>>), <<e>>), [NoOutcome EXCEPT !.op = "delete"])

\* writeFile resolves
WriteDone ==
    /\ writes # <<>>
    /\ file' = writes[1]
    /\ writes' = <<>>
    /\ outcome' = NoOutcome
    /\ UNCHANGED <<heap, favorites, fileKind, refreshes, prompt, confirms, last>>
    /\ UNCHANGED restoreVars

\* writeFile rejects: nothing in the store handles it
WriteFails ==
    /\ writes # <<>>
    /\ writes' = <<>>
    /\ outcome' = [outcome EXCEPT !.threw = "writeFile",
                                  !.rejected = AwaitsPersist(outcome.op)]
    /\ UNCHANGED <<heap, favorites, file, fileKind, refreshes, prompt, confirms, last>>
    /\ UNCHANGED restoreVars

NextWrite ==
    \/ \E k \in Kinds, l \in StoreLabels : CallAdd(k, l)
    \/ \E e \in 1..Len(heap), l \in StoreLabels : CallUpdate(e, l)
    \/ \E e \in 1..Len(heap) : CallDelete(e)
    \/ WriteDone
    \/ WriteFails

SpecWrite == InitStore /\ [][NextWrite]_vars

\* What the store writes and reads back, on trees of all three classes.
NextTrip ==
    \/ \E k \in StoreKinds, l \in Labels : StoreAdd(k, l)
    \/ \E k \in StoreKinds, l \in Labels, g \in 1..Len(heap) : StoreNest(k, l, g)
    \/ \E e \in 1..Len(heap), g \in 1..Len(heap) : StoreMove(e, g)
    \/ \E e \in 1..Len(heap) : StoreDelete(e)
    \/ StoreReload

SpecTrip == InitStore /\ [][NextTrip]_vars

\* The listings on the trees that add and nest build ...

NextList ==
    \/ \E k \in ListKinds, l \in StoreLabels : StoreAdd(k, l)
    \/ \E k \in ListKinds, l \in StoreLabels, g \in 1..Len(heap) : StoreNest(k, l, g)
    \/ StoreGroups
    \/ StoreFavorites

SpecList == InitStore /\ [][NextList]_vars

\* ... and on the trees that add, nest and move build
NextMoveList ==
    \/ \E k \in ListKinds, l \in StoreLabels : StoreAdd(k, l)
    \/ \E k \in ListKinds, l \in StoreLabels, g \in 1..Len(heap) : StoreNest(k, l, g)
    \/ \E e \in 1..Len(heap), g \in 1..Len(heap) : StoreMove(e, g)
    \/ StoreGroups
    \/ StoreFavorites

SpecMoveList == InitStore /\ [][NextMoveList]_vars

\* What the store writes once listings have set descriptions, on trees of all
\* three classes.
NextSave ==
    \/ \E k \in StoreKinds, l \in Labels : StoreAdd(k, l)
    \/ \E k \in StoreKinds, l \in Labels, g \in 1..Len(heap) : StoreNest(k, l, g)
    \/ StoreGroups
    \/ StoreFavorites

SpecSave == InitStore /\ [][NextSave]_vars

\* The tree view rendering the store between the saves: root() for the top
\* level, getChildren and getTreeItem for what it shows, and store.update()
\* called with nothing changed (a rename to the same label).
GetTreeItem(e) ==
    /\ e \in Shown
    /\ LET r == toTreeItem(heap, e)
       IN PostStore(St(r.h, favorites, <<>>), Did("toTreeItem", e, <<>>))

StoreUpdate ==
    /\ writes = <<>>
    /\ PostStore(update(St(heap, favorites, <<>>)), Did("update", Nil, <<>>))

NextView ==
    \/ \E k \in ListKinds, l \in StoreLabels : StoreAdd(k, l)
    \/ \E k \in ListKinds, l \in StoreLabels, g \in 1..Len(heap) : StoreNest(k, l, g)
    \/ StoreRoot
    \/ \E g \in 1..Len(heap) : GetChildren(g)
    \/ \E e \in 1..Len(heap) : GetTreeItem(e)
    \/ StoreUpdate

SpecView == InitStore /\ [][NextView]_vars

\* openGroup(group): group.activate(), the resources of the entities in
\* broken being gone.  rejected tells whether the caller of activate gets the
\* failure, threw which call failed.
Activate(group, broken) ==
    /\ group \in groups(heap, favorites)
    /\ broken \subseteq {x \in Descendants(heap, group) : ~isGroup(heap, x)}
    /\ LET r == activate(heap, group, broken)
       IN PostStore(St(r.h, favorites, <<>>),
                    [NoOutcome EXCEPT !.op = "activate", !.e = group,
                                      !.threw = r.failure, !.rejected = r.threw,
                                      !.result = r.activated])

\* group.location()
Location(group) ==
    /\ group \in groups(heap, favorites)
    /\ LET r == location(heap, group)
       IN PostStore(St(r.h, favorites, <<>>),
                    [NoOutcome EXCEPT !.op = "location", !.e = group,
                                      !.result = r.visited, !.given = r.uris])

NextOpen ==
    \/ \E k \in StoreKinds, l \in Labels : StoreAdd(k, l)
    \/ \E k \in StoreKinds, l \in Labels, g \in 1..Len(heap) : StoreNest(k, l, g)
    \/ \E g \in 1..Len(heap), broken \in SUBSET (1..Len(heap)) : Activate(g, broken)
    \/ \E g \in 1..Len(heap) : Location(g)

SpecOpen == InitStore /\ [][NextOpen]_vars

\* -------------------------------------------------------- restoration point
\* createRestorationPoint and loadResorationPoint on restore.json.  The
\* manager's constructor calls loadResorationPoint, openFilesInNewWindow calls
\* createRestorationPoint; the write and the delete they hand to the storage
\* layer complete later, in any order.
Paths == {"/x", "/y"}

\* vscode.Uri.file(path) and uri.fsPath
UriFile(path) == [scheme |-> "file", path |-> path]
fsPath(uri) == uri.path

PathLists == SeqsUpTo(Paths, MaxPaths)
UriLists == SeqsUpTo({UriFile(path) : path \in Paths}, MaxPaths)

\* createRestorationPoint(uris): writeFile(restoreUri, uris.map(u => u.fsPath));
\* alone (history): no loadResorationPoint has returned since the call
createRestorationPoint(ops, uris) ==
    Append(ops, [op |-> "write", doc |-> [i \in DOMAIN uris |-> fsPath(uris[i])],
                 alone |-> TRUE])

\* JSON.parse(buffer)?.map(s => vscode.Uri.file(s)) || [] on a stored list
parsePaths(doc) == [i \in DOMAIN doc |-> UriFile(doc[i])]

InitRestore ==
    /\ heap = <<RootGroupObj>>
    /\ favorites = <<>>
    /\ file = <<>>
    /\ writes = <<>>
    /\ refreshes = 0
    /\ prompt = NoPrompt
    /\ confirms = {}
    /\ last = NoLast
    /\ fileKind = "list"
    /\ outcome = NoOutcome
    /\ restoreFile \in {Absent} \cup {Holding(doc) : doc \in PathLists}
    /\ restoreOps = <<>>
    /\ loading = [NotLoading EXCEPT !.at = "stat"]
    /\ point = NoPoint

storeVars == <<heap, favorites, file, writes, refreshes, prompt, confirms, last, fileKind>>

\* store.createRestorationPoint(uris)
CreateRestorationPoint(uris) ==
    /\ Len(restoreOps) < MaxRestoreOps
    /\ restoreOps' = createRestorationPoint(restoreOps, uris)
    /\ point' = NoPoint
    /\ loading' = [loading EXCEPT !.created = FALSE, !.paths = <<>>, !.consumed = FALSE]
    /\ outcome' = NoOutcome
    /\ UNCHANGED restoreFile
    /\ UNCHANGED storeVars

\* the storage layer completes a writeFile on restore.json: the promise
\* createRestorationPoint returned resolves
RestoreWriteDone(i) ==
    /\ i \in 1..Len(restoreOps)
    /\ restoreOps[i].op = "write"
    /\ restoreFile' = Holding(restoreOps[i].doc)
    /\ restoreOps' = RemoveAt(restoreOps, i)
    /\ point' = IF /\ restoreOps[i].alone
                   /\ \A j \in 1..Len(restoreOps') : restoreOps'[j].op # "write"
                THEN [created |-> TRUE, paths |-> restoreOps[i].doc, consumed |-> FALSE]
                ELSE point
    /\ UNCHANGED <<loading, outcome>>
    /\ UNCHANGED storeVars

\* the storage layer completes a delete of restore.json
RestoreDeleteDone(i) ==
    /\ i \in 1..Len(restoreOps)
    /\ restoreOps[i].op = "delete"
    /\ restoreFile' = Absent
    /\ restoreOps' = RemoveAt(restoreOps, i)
    /\ UNCHANGED <<loading, outcome, point>>
    /\ UNCHANGED storeVars

\* store.loadResorationPoint() up to the await of stat
LoadRestorationPoint ==
    /\ loading.at = "idle"
    /\ loading' = [at |-> "stat", created |-> point.created, paths |-> point.paths,
                   consumed |-> point.consumed]
    /\ outcome' = NoOutcome
    /\ UNCHANGED <<restoreFile, restoreOps, point>>
    /\ UNCHANGED storeVars

Loaded(threw, result) ==
    [NoOutcome EXCEPT !.op = "loadResorationPoint", !.threw = threw,
                      !.rejected = (threw # "none"), !.result = result]

\* stat answers: it throws FileNotFound when the file is absent, and the
\* promise of loadResorationPoint rejects; else readFile is awaited
LoadStat ==
    /\ loading.at = "stat"
    /\ IF restoreFile.present
       THEN loading' = [loading EXCEPT !.at = "readFile"] /\ UNCHANGED outcome
       ELSE loading' = NotLoading /\ outcome' = Loaded("stat", <<>>)
    /\ UNCHANGED <<restoreFile, restoreOps, point>>
    /\ UNCHANGED storeVars

\* readFile answers: the delete is issued and not awaited, the list returned
LoadRead ==
    /\ loading.at = "readFile"
    /\ loading' = NotLoading
    /\ IF restoreFile.present
       THEN /\ Len(restoreOps) < MaxRestoreOps
            /\ restoreOps' = Append([j \in DOMAIN restoreOps |->
                                        [restoreOps[j] EXCEPT !.alone = FALSE]],
                                    [op |-> "delete", doc |-> <<>>, alone |-> FALSE])
            /\ outcome' = Loaded("none", parsePaths(restoreFile.doc))
            /\ point' = [NoPoint EXCEPT !.consumed = TRUE]
       ELSE /\ outcome' = Loaded("readFile", <<>>)
            /\ UNCHANGED <<restoreOps, point>>
    /\ UNCHANGED restoreFile
    /\ UNCHANGED storeVars

NextRestore ==
    \/ \E uris \in UriLists : CreateRestorationPoint(uris)
    \/ \E i \in 1..MaxRestoreOps : RestoreWriteDone(i)
    \/ \E i \in 1..MaxRestoreOps : RestoreDeleteDone(i)
    \/ LoadRestorationPoint
    \/ LoadStat
    \/ LoadRead

SpecRestore == InitRestore /\ [][NextRestore]_vars

\* ================================================================= claims
Ids == 1..Len(heap)

\* the places (list, index) at which e is held; list 0 is the root collection
Positions(h, favs, e) ==
    {<<0, i>> : i \in {j \in DOMAIN favs : favs[j] = e}}
        \cup UNION {{<<g, i>> : i \in {j \in DOMAIN h[g].children : h[g].children[j] = e}}
                       : g \in 1..Len(h)}

Without(seq, e) == SelectSeq(seq, LAMBDA x : x # e)

StrictForest ==
    /\ \A e \in Ids : Cardinality(Positions(heap, favorites, e)) <= 1
    /\ \A g \in Ids : g \notin Descendants(heap, g)

\* C3: when moveFavorite(e) has completed with target newGroup, e is reachable
\* from the root collection, held at exactly one place, which is newGroup's
\* children with e.parent = newGroup, or the root collection with no parent
\* when the target is the virtual root.
MoveAtomicity ==
    last.op = "move" =>
        /\ last.e \in Shown
        /\ Cardinality(Positions(heap, favorites, last.e)) = 1
        /\ IF last.to = RootGroup
           THEN last.e \in Range(favorites) /\ heap[last.e].parent = Nil
           ELSE last.e \in Range(heap[last.to].children) /\ heap[last.e].parent = last.to

\* the entities that a suspended command is about to hand to store.delete
DeleteArgs ==
    confirms \cup (IF prompt.cmd = "move" /\ heap[prompt.arg].parent = Nil
                   THEN {prompt.arg} ELSE {})

\* C4: store.delete(e) for an entity that has no parent and is not in the
\* root collection changes neither the root collection nor any object.
DeleteAbsentIsNoOp ==
    \A e \in DeleteArgs :
        (heap[e].parent = Nil /\ e \notin Range(favorites)) =>
            LET s == delete(Cur, <<e>>)
            IN s.favs = favorites /\ s.h = heap

\* C5: store.delete(e) takes e out of its parent's children and clears its
\* parent, or takes a root-level e out of the root collection; every other
\* entity keeps its place and its parent.
DeleteDetaches ==
    /\ \A e \in DeleteArgs :
          LET s == delete(Cur, <<e>>)
              g == heap[e].parent
          IN (g # Nil \/ e \in Range(favorites)) =>
                /\ g # Nil => e \notin Range(s.h[g].children) /\ s.h[e].parent = Nil
                /\ g = Nil => e \notin Range(s.favs)
                /\ Without(s.favs, e) = Without(favorites, e)
                /\ \A x \in Ids :
                      /\ Without(s.h[x].children, e) = Without(heap[x].children, e)
                      /\ x # e => s.h[x].parent = heap[x].parent
    /\ last.op = "delete" =>
          /\ heap[last.e].parent = Nil
          /\ last.e \notin Range(favorites)
          /\ last.from # Nil => last.e \notin Range(heap[last.from].children)

\* removeFavorite has just deleted an entity that was a child of a group
DeletedNested == last.op = "delete" /\ last.from # Nil /\ heap[last.e].parent = Nil

\* C6: whenever no write and no refresh is in flight, the stored document is
\* the serialization of the in-memory root collection.
StoredMatchesMemory ==
    (writes = <<>> /\ refreshes = 0) => file = Stringify(heap, favorites)

\* C7: a refresh started after add(e) returned, with no other command and no
\* edit of the file in between, does not lose e.
RefreshKeepsAdded == last.op = "refreshedAfterAdd" => ~last.lost

\* C8: no two writes of the favorites document are in flight at once.
OneWriteInFlight == Len(writes) <= 1

\* C9: at most one refresh is in flight.
OneRefreshInFlight == refreshes <= 1

\* C10: no document handed to storage during moveFavorite(e) reflects a tree
\* from which e is missing.
MoveNeverDetached == last.op = "move" => ~last.detached

\* C11: when refresh() fails (the file cannot be read, is not JSON, holds a
\* value that is not a list, or holds a record that cannot be reconstructed),
\* the promise it returned rejects and the root collection and every object
\* are what they were before the call.
RefreshFailureKeepsMemory ==
    [][(refreshes' < refreshes /\ outcome'.op = "refresh" /\ outcome'.threw # "none")
          => (outcome'.rejected /\ favorites' = favorites /\ heap' = heap)]_vars

\* a reload has failed on a record that cannot be reconstructed while the
\* store held entities
FailedReloadKeptMemory ==
    /\ outcome.op = "refresh"
    /\ outcome.threw = "restore"
    /\ outcome.rejected
    /\ favorites # <<>>

\* C12: when the write issued by add, update or delete fails, the promise the
\* operation returned rejects, and the change it made in memory is kept.
WriteFailureDelivered ==
    outcome.threw = "writeFile" =>
        /\ outcome.rejected
        /\ outcome.op = "add" => outcome.e \in Range(favorites)
        /\ outcome.op = "update" => outcome.e \in Range(favorites)

\* the trees under a (in h1) and b (in h2) have the same classes, labels,
\* resourcePaths, filters and shape, and b's parent is pb
RECURSIVE SameTree(_, _, _, _, _)
SameTree(h1, a, h2, b, pb) ==
    /\ h2[b].cls = h1[a].cls
    /\ h2[b].label = h1[a].label
    /\ h1[a].cls # "Group" => h2[b].resourcePath = h1[a].resourcePath
    /\ h1[a].cls = "Folder" => h2[b].filter = h1[a].filter
    /\ h2[b].parent = pb
    /\ Len(h2[b].children) = Len(h1[a].children)
    /\ \A i \in 1..Len(h1[a].children) :
           SameTree(h1, h1[a].children[i], h2, h2[b].children[i], b)

\* C13: serializing the root collection and restoring every top-level record
\* yields a forest with the same labels, resourcePaths, filters, classes and
\* shape, every restored child having its restored containing Group as parent.
RoundTrip ==
    LET r == restoreAll(<<RootGroupObj>>, Stringify(heap, favorites), Nil)
    IN /\ ~r.threw
       /\ Len(r.ids) = Len(favorites)
       /\ \A i \in 1..Len(favorites) : SameTree(heap, favorites[i], r.h, r.ids[i], Nil)

\* the store has been reloaded from what it wrote and holds a Folder two
\* groups deep
ReloadedNestedFolder ==
    /\ outcome.op = "refresh"
    /\ \E x \in Shown :
          /\ heap[x].cls = "Folder"
          /\ heap[x].parent # Nil
          /\ heap[heap[x].parent].parent # Nil

\* the class a stored record stands for, by the fields it has
ClassOf(obj) ==
    CASE "children" \in DOMAIN obj -> "Group"
      [] "children" \notin DOMAIN obj /\ "filter" \in DOMAIN obj -> "Folder"
      [] OTHER -> "Favorite"

RECURSIVE ClassifiedAs(_, _, _)
ClassifiedAs(h, id, obj) ==
    /\ h[id].cls = ClassOf(obj)
    /\ "children" \in DOMAIN obj =>
          /\ Len(h[id].children) = Len(obj.children)
          /\ \A i \in 1..Len(obj.children) :
                 ClassifiedAs(h, h[id].children[i], obj.children[i])

\* C14: after a load every object has the class its record's fields tell, at
\* every depth: Group when the record has children (empty or not, with or
\* without a filter), else Folder when it has a filter, else Favorite.
LoadClassifies ==
    (outcome.op = "refresh" /\ outcome.threw = "none" /\ fileKind = "list") =>
        /\ Len(favorites) = Len(file)
        /\ \A i \in 1..Len(file) : ClassifiedAs(heap, favorites[i], file[i])

\* a nested record with an empty children list and a filter has been loaded
LoadedGroupWithFilter ==
    /\ outcome.op = "refresh"
    /\ outcome.threw = "none"
    /\ fileKind = "list"
    /\ file = <<GroupRec(<<GroupFilterRec(<<>>)>>)>>
    /\ Len(favorites) = 1

\* an entity is held below the root collection, and is not a Group
Listable(x) == x \in Shown /\ ~isGroup(heap, x)

Occurrences(seq, x) == Cardinality({i \in 1..Len(seq) : seq[i] = x})

\* C15: favorites() returns every non-Group entity reachable from the root
\* collection exactly once, at any depth, and nothing else.
FavoritesComplete ==
    outcome.op = "favorites" =>
        /\ \A x \in Ids : Occurrences(outcome.result, x) = (IF Listable(x) THEN 1 ELSE 0)
        /\ (Len(heap) = 2 /\ Len(favorites) = 1 /\ ~isGroup(heap, favorites[1]))
               => outcome.result = favorites

\* favorites() has listed a non-Group entity held two groups deep, and one of
\* the root collection
ListedDeepFavorite ==
    /\ outcome.op = "favorites"
    /\ \E x \in Range(outcome.result) :
          heap[x].parent # Nil /\ heap[heap[x].parent].parent # Nil

\* C16: the list favorites() returns is in label order.
FavoritesSorted ==
    outcome.op = "favorites" =>
        \A i, j \in 1..Len(outcome.result) :
            i < j => heap[outcome.result[i]].label <= heap[outcome.result[j]].label

\* the labels of the ancestors of x, from the top-level group down to its
\* parent
RECURSIVE AncestorLabels(_, _, _)
AncestorLabels(h, x, fuel) ==
    IF h[x].parent = Nil \/ fuel = 0 THEN <<>>
    ELSE Append(AncestorLabels(h, h[x].parent, fuel - 1), h[h[x].parent].label)

\* C17: every entity that favorites() or groups() has just returned carries
\* the breadcrumb of its current ancestors, none for a root-level entity.
DescriptionIsAncestorChain ==
    outcome.op \in {"favorites", "groups"} =>
        \A x \in Range(outcome.result) :
            heap[x].description = AncestorLabels(heap, x, Len(heap))

\* C18: groups() returns every Group reachable from the root collection
\* exactly once, nothing else, in label order.
GroupsCompleteSorted ==
    outcome.op = "groups" =>
        /\ \A x \in Ids :
               Occurrences(outcome.result, x)
                   = (IF x \in Shown /\ isGroup(heap, x) THEN 1 ELSE 0)
        /\ \A i, j \in 1..Len(outcome.result) :
               i < j => heap[outcome.result[i]].label <= heap[outcome.result[j]].label

\* groups() has listed a nested group whose label sorts before that of the
\* group holding it
ListedNestedGroups ==
    /\ outcome.op = "groups"
    /\ \E x \in Range(outcome.result) :
          /\ heap[x].parent # Nil
          /\ heap[x].label < heap[heap[x].parent].label

\* s is in the order of root(): Groups first, each kind in label order
RootOrdered(h, s) ==
    \A i, j \in 1..Len(s) :
        i < j => /\ isGroup(h, s[j]) => isGroup(h, s[i])
                 /\ isGroup(h, s[i]) = isGroup(h, s[j]) => h[s[i]].label <= h[s[j]].label

\* C19: root() returns the entities of the root collection, each once and no
\* nested one, Groups first and each kind in label order.
RootTopLevelSorted ==
    /\ LET r == storeRoot(heap, favorites)
       IN /\ \A x \in Ids : Occurrences(r, x) = Occurrences(favorites, x)
          /\ RootOrdered(heap, r)
    /\ outcome.op = "root" =>
          /\ outcome.result = favorites
          /\ RootOrdered(heap, outcome.result)
          /\ \A x \in Range(outcome.result) :
                 heap[x].parent = Nil /\ \A g \in Ids : x \notin Range(heap[g].children)

\* root() has returned a Group and a non-Group, the Group's label sorting
\* after the other's, while an entity is nested
RootListedMixed ==
    /\ outcome.op = "root"
    /\ \E i, j \in 1..Len(outcome.result) :
          /\ isGroup(heap, outcome.result[i])
          /\ ~isGroup(heap, outcome.result[j])
          /\ heap[outcome.result[i]].label > heap[outcome.result[j]].label
    /\ \E x \in Shown : heap[x].parent # Nil

Sign(n) == IF n < 0 THEN 0 - 1 ELSE IF n > 0 THEN 1 ELSE 0

\* C20: bookmarkableComparator(a, b) has the opposite sign of (b, a), is
\* negative for a Group against a non-Group whatever the labels, and follows
\* the labels for two entities of the same kind.
ComparatorKindFirst ==
    \A a, b \in Ids :
        /\ Sign(bookmarkableComparator(heap, a, b)) = 0 - Sign(bookmarkableComparator(heap, b, a))
        /\ (isGroup(heap, a) /\ ~isGroup(heap, b)) => bookmarkableComparator(heap, a, b) < 0
        /\ (isGroup(heap, a) = isGroup(heap, b)) =>
               /\ heap[a].label < heap[b].label => bookmarkableComparator(heap, a, b) < 0
               /\ heap[a].label = heap[b].label => bookmarkableComparator(heap, a, b) = 0
               /\ heap[a].label > heap[b].label => bookmarkableComparator(heap, a, b) > 0

\* a sort has compared a Group with a non-Group whose label sorts first
SortedGroupAgainstLeaf ==
    /\ outcome.op = "root"
    /\ \E a, b \in Range(favorites) :
          isGroup(heap, a) /\ ~isGroup(heap, b) /\ heap[a].label > heap[b].label

\* rec is the record written for the entity id of h: the fields of its class
\* and nothing else, at every depth
RECURSIVE WrittenAs(_, _, _)
WrittenAs(h, id, rec) ==
    /\ rec.label = h[id].label
    /\ h[id].cls = "Group" =>
          /\ DOMAIN rec = {"label", "children"}
          /\ Len(rec.children) = Len(h[id].children)
          /\ \A i \in 1..Len(h[id].children) :
                 WrittenAs(h, h[id].children[i], rec.children[i])
    /\ h[id].cls = "Favorite" =>
          /\ DOMAIN rec = {"label", "resourcePath"}
          /\ rec.resourcePath = h[id].resourcePath
    /\ h[id].cls = "Folder" =>
          /\ DOMAIN rec = {"label", "resourcePath", "filter"}
          /\ rec.resourcePath = h[id].resourcePath
          /\ rec.filter = h[id].filter

\* C21: every document written holds, for each entity, the fields of its
\* class only ({label, children}, {label, resourcePath}, {label, resourcePath,
\* filter}): no parent and no description, also when both are set in memory.
WritesOnlyPersistedFields ==
    /\ file = Stringify(heap, favorites)
    /\ Len(file) = Len(favorites)
    /\ \A i \in 1..Len(favorites) : WrittenAs(heap, favorites[i], file[i])

\* a save has followed a listing: the document holds a nested Folder whose
\* parent and description are set in memory
SavedDescribedNested ==
    /\ outcome.op = "none"
    /\ file = Stringify(heap, favorites)
    /\ \E x \in Shown :
          /\ heap[x].cls = "Folder"
          /\ heap[x].parent # Nil
          /\ heap[x].description # <<>>

\* the paths of a list of uris
PathsOf(uris) == [i \in DOMAIN uris |-> fsPath(uris[i])]

\* a loadResorationPoint call returns in this step
LoadReturns == loading.at # "idle" /\ loading'.at = "idle"

\* C22: a loadResorationPoint called once createRestorationPoint(paths) has
\* resolved, no other createRestorationPoint being called in between, returns
\* the given paths in the given order.
RestorationRoundTrip ==
    [][(LoadReturns /\ loading.created)
          => (~outcome'.rejected /\ PathsOf(outcome'.result) = loading.paths)]_vars

\* C23: loadResorationPoint returns the empty list, and no error, when the
\* file is absent, and when an earlier call has returned the list of the file
\* and createRestorationPoint was not called since.
LoadConsumes ==
    [][(LoadReturns /\ (~restoreFile.present \/ loading.consumed))
          => (~outcome'.rejected /\ outcome'.result = <<>>)]_vars

\* the record, or a record below it, lacks a field of its class
RECURSIVE Lacks(_)
Lacks(rec) ==
    \/ "label" \notin DOMAIN rec
    \/ "children" \notin DOMAIN rec /\ "resourcePath" \notin DOMAIN rec
    \/ "children" \in DOMAIN rec /\ \E i \in 1..Len(rec.children) : Lacks(rec.children[i])

\* C24: once a load of a document in which a record lacks a field has
\* completed, the load has succeeded and the stored document is the
\* serialization of the loaded entities, defaults included, or a write of it is
\* on its way.
LegacyRepaired ==
    (outcome.op = "refresh" /\ refreshes = 0 /\ \E i \in 1..Len(file) : Lacks(file[i])) =>
        /\ outcome.threw = "none"
        /\ Len(favorites) = Len(file)
        /\ \/ file = Stringify(heap, favorites)
           \/ \E i \in 1..Len(writes) : writes[i] = Stringify(heap, favorites)

\* C25: toTreeItem() changes no field of any entity, nor the root collection,
\* nor the stored document.
ToTreeItemIsPure ==
    [][outcome'.op = "toTreeItem"
          => (heap' = heap /\ favorites' = favorites /\ file' = file)]_vars

\* C27: a save made with no mutation since the save before it writes the
\* document that save wrote, whatever listings and renderings came between.
RepeatedSaveIdentical ==
    [][outcome'.op = "update" => file' = file]_vars

\* C28: root() leaves the root collection as it was: the same entities in the
\* same order, so that the next save writes what the last one wrote.
RootLeavesCollection ==
    [][outcome'.op = "root"
          => Stringify(heap', favorites') = Stringify(heap, favorites)]_vars

\* C26: when the opening of a descendant bookmark fails during the activation
\* of a Group, the caller of activate gets the failure, and activate has been
\* called on every bookmark below the Group.
ActivationFailureReported ==
    (outcome.op = "activate" /\ outcome.threw # "none") =>
        /\ outcome.rejected
        /\ \A x \in Descendants(heap, outcome.e) :
               ~isGroup(heap, x) => x \in Range(outcome.result)

\* C29: when addToFavorites into a group or moveFavorite completes, its
\* entity is reachable from the root collection the store holds then, also
\* when a refresh has replaced the tree since the quick pick was opened.
PromptedCommandKeepsReachable ==
    last.op \in {"addToGroup", "move"} => last.e \in Shown

AddAppends ==
    [][outcome'.op = "add" =>
          LET n == Len(outcome'.given)
              old == Len(favorites)
          IN /\ Len(favorites') = old + n
             /\ \A i \in 1..old : favorites'[i] = favorites[i]
             /\ \A i \in 1..n :
                    /\ favorites'[old + i] = outcome'.result[i]
                    /\ heap'[favorites'[old + i]]
                           = NewEntity(outcome'.given[i].kind, outcome'.given[i].label)
             /\ \A x \in 1..Len(heap) : heap'[x] = heap[x]
             /\ outcome'.written = <<Stringify(heap', favorites')>>]_vars

\* add has appended two Favorites to a root collection that held one with
\* the same resourcePath
AddedTwoDuplicates ==
    /\ outcome.op = "add"
    /\ Len(outcome.given) = 2
    /\ Len(favorites) = 3
    /\ \A i \in 1..3 : /\ heap[favorites[i]].cls = "Favorite"
                        /\ heap[favorites[i]].resourcePath = SelectedPath

\* the tree without the entities of E
PrunedDoc(h, favs, E) ==
    Stringify([x \in 1..Len(h) |->
                  [h[x] EXCEPT !.children = SelectSeq(@, LAMBDA y : y \notin E)]],
              SelectSeq(favs, LAMBDA y : y \notin E))

\* C33: delete(e1..en) hands one document to storage, after all the removals:
\* it is the serialization of the tree the call leaves, in which none of the
\* entities passed remains, root-level or nested; for distinct entities it is
\* the tree as it was without them.
DeleteWritesOnce ==
    [][outcome'.op = "delete" =>
          LET E == {outcome'.given[i].id : i \in 1..Len(outcome'.given)}
          IN /\ outcome'.written = <<Stringify(heap', favorites')>>
             /\ \A i \in 1..Len(outcome'.result) : outcome'.result[i] = Nil
             /\ Cardinality(E) = Len(outcome'.given)
                    => outcome'.written[1] = PrunedDoc(heap, favorites, E)]_vars

\* delete has been called with a root-level and a nested entity, and a group
\* remains in the tree
DeletedRootAndNested ==
    /\ outcome.op = "delete"
    /\ Len(outcome.given) = 2
    /\ outcome.given[1].id # outcome.given[2].id
    /\ \E i, j \in 1..2 : outcome.given[i].parent = Nil /\ outcome.given[j].parent # Nil
    /\ favorites # <<>>

\* C39: after delete(g), g being a Group of the tree, root(), groups() and
\* favorites() return what they returned before without g and the entities
\* below g, and the document written holds the tree the call leaves.
GroupDeleteRemovesSubtree ==
    [][(/\ outcome'.op = "delete"
        /\ Len(outcome'.given) = 1
        /\ isGroup(heap, outcome'.given[1].id)) =>
          LET g == outcome'.given[1].id
              D == Range(Subtree(heap, g))
              Moved(x) == IF x < g THEN x ELSE x - Cardinality(D)
              Kept(list) == LET k == SelectSeq(list, LAMBDA x : x \notin D)
                            IN [i \in DOMAIN k |-> Moved(k[i])]
          IN /\ storeRoot(heap', favorites') = Kept(storeRoot(heap, favorites))
             /\ storeGroups(heap', favorites').list
                    = Kept(storeGroups(heap, favorites).list)
             /\ storeFavorites(heap', favorites').list
                    = Kept(storeFavorites(heap, favorites).list)
             /\ \A i \in 1..Len(outcome'.result) : outcome'.result[i] = Nil
             /\ outcome'.written = <<Stringify(heap', favorites')>>
             /\ Cardinality(Shown') = Cardinality(Shown) - Cardinality(D)]_vars

\* a Group holding an entity has been deleted while the root collection held
\* another entity
DeletedGroupWithChild ==
    /\ outcome.op = "delete"
    /\ Len(outcome.given) = 1
    /\ Len(outcome.result) >= 2
    /\ favorites # <<>>

\* C34: activating a Group, and computing its location(), visits each
\* Favorite and Folder below the Group once, at any depth, and nothing else;
\* location() returns one uri per entity visited.
GroupVisitsSubtreeOnce ==
    outcome.op \in {"activate", "location"} =>
        /\ \A x \in Ids :
               Occurrences(outcome.result, x)
                   = (IF x \in Descendants(heap, outcome.e) /\ ~isGroup(heap, x)
                      THEN 1 ELSE 0)
        /\ outcome.op = "location" =>
               outcome.given = [i \in DOMAIN outcome.result |->
                                   [scheme |-> "file",
                                    path |-> heap[outcome.result[i]].resourcePath]]

\* a Group has been activated that holds a Folder two groups deep
ActivatedDeepFolder ==
    /\ outcome.op = "activate"
    /\ \E x \in Range(outcome.result) :
          /\ heap[x].cls = "Folder"
          /\ heap[x].parent # outcome.e
          /\ heap[heap[x].parent].parent = outcome.e

\* the document holds, at some depth, a record with the label of the virtual
\* root
RECURSIVE HoldsRoot(_, _)
HoldsRoot(doc, fuel) ==
    \E i \in 1..Len(doc) :
        \/ doc[i].label = RootLabel
        \/ /\ fuel > 0
           /\ "children" \in DOMAIN doc[i]
           /\ HoldsRoot(doc[i].children, fuel - 1)

\* C35: the virtual root is in no root collection and in no children list,
\* is no entity's parent, keeps an empty children list, is in no document
\* stored or handed to storage, and a move to it leaves the entity at the end
\* of the root collection, with no parent.
RootGroupNeverANode ==
    /\ RootGroup \notin Range(favorites)
    /\ \A x \in Ids : RootGroup \notin Range(heap[x].children) /\ heap[x].parent # RootGroup
    /\ heap[RootGroup] = RootGroupObj
    /\ ~HoldsRoot(file, MaxObj)
    /\ \A i \in 1..Len(writes) : ~HoldsRoot(writes[i], MaxObj)
    /\ (last.op = "move" /\ last.to = RootGroup) =>
          /\ favorites # <<>>
          /\ favorites[Len(favorites)] = last.e
          /\ heap[last.e].parent = Nil

\* a nested entity has been moved to the virtual root
MovedToRoot ==
    /\ last.op = "move"
    /\ last.to = RootGroup
    /\ last.from # Nil
    /\ last.e \in Range(favorites)

\* C36: while the move quick pick is open it does not list the container of
\* the entity (the virtual root for a root-level entity, the parent for a
\* nested one), and the quick pick of addToFavorites into a group never lists
\* the virtual root.
PickerExcludesContainer ==
    /\ prompt.cmd = "move" =>
          LET e == prompt.arg
              g == heap[e].parent
          IN /\ (g = Nil /\ e \in Range(favorites)) => RootGroup \notin prompt.offered
             /\ (g # Nil /\ e \in Range(heap[g].children)) => g \notin prompt.offered
    /\ prompt.cmd = "add" => RootGroup \notin prompt.offered

\* the move quick pick of a nested entity is open, and lists the virtual root
MovePickerOpenForNested ==
    /\ prompt.cmd = "move"
    /\ heap[prompt.arg].parent # Nil
    /\ prompt.arg \in Range(heap[heap[prompt.arg].parent].children)
    /\ RootGroup \in prompt.offered

\* C37: every entity the manager commands have put or renamed in the tree has
\* a non-empty label in every state, and a command whose label box returned
\* '' or undefined leaves the tree, its labels included, as it was.
LabelsNeverEmpty ==
    [][/\ \A x \in Shown' : heap'[x].label # 0
       /\ last'.op = "returned" => heap' = heap /\ favorites' = favorites]_vars

\* a shown entity has just been renamed, another one being in the tree
RenamedOneOfTwo ==
    /\ last.op = "rename"
    /\ last.e \in Shown
    /\ Cardinality(Shown) >= 2

\* C38: a step in which a command returns at a prompt (no label entered, no
\* group to pick from, the group picker dismissed, the removal not answered
\* 'Yes') leaves the root collection, every shown entity with its children
\* and its parent, the writes in flight and the file as they were.
CancelChangesNothing ==
    [][(\/ last'.op = "returned"
        \/ prompt # NoPrompt /\ prompt' = NoPrompt /\ last' = NoLast
        \/ confirms' # confirms /\ confirms' \subseteq confirms /\ last' = NoLast)
       => /\ favorites' = favorites
          /\ Shown' = Shown
          /\ \A x \in Shown : heap'[x] = heap[x]
          /\ writes' = writes
          /\ file' = file]_vars

\* a command has just returned at its prompt, the tree holding a group with a
\* child
ReturnedWithNestedTree ==
    /\ last.op = "returned"
    /\ \E g \in Shown : heap[g].children # <<>>

\* C30: a refresh that completes successfully has fired the loaded
\* notification once, and the listener found the loaded tree as the root
\* collection; so does the refresh started by the constructor.
LoadedFiredOnce ==
    (outcome.op = "refresh" /\ outcome.threw = "none") =>
        /\ outcome.fired = 1
        /\ outcome.result = favorites

\* a refresh has replaced the root collection by a loaded group and its
\* child, and notified
LoadedNotified ==
    /\ outcome.op = "refresh"
    /\ outcome.threw = "none"
    /\ outcome.fired = 1
    /\ \E x \in Range(outcome.result) : heap[x].children # <<>>

====
